---- MODULE Spec2Model ----
(***************************************************************************)
(* The replicated "Kafka-style" log node of src/bin/kafka_style_log.rs:    *)
(* a cluster of KafkaStyleLogNode processes, the shared Redis offset       *)
(* counter, the network carrying Gossip messages and the per-node timer    *)
(* thread that injects TriggerGossip / Anchor ticks.  Every handler is one *)
(* atomic action: main_loop takes one message at a time from the channel   *)
(* and runs handle_message to completion.                                  *)
(***************************************************************************)
EXTENDS Naturals, FiniteSets, Sequences, TLC

\* ------------------------------------------------------------------ bounds
Nodes == {"n1", "n2", "n3", "n4"}
Keys == {"k1"}
\* the keys of the two-key workload
AllKeys == {"k1", "k2"}
Client == "c1"
\* The harness of a run: the members it names in every init message, and how
\* much it does: the sends it issues per key (a cap on the Redis counter), the
\* value a node's message_id may reach, and the client requests (send, poll,
\* commit_offsets, list_committed_offsets) it issues in all.
\* Three members:
MaxOffset == 1
MaxMsgId == 3
MaxRequests == 2
\* Two members:
MaxOffset2 == 2
MaxMsgId2 == 5
MaxRequests2 == 4
\* KafkaStyleLogNode::new
gossip_batch_size == 200

VARIABLES
    harness,                    \* the members and the limits of the run (never changes)
    node_id,                    \* KafkaStyleLogNode.node_id ("uninit" before init)
    message_id,                 \* KafkaStyleLogNode.message_id
    cluster,                    \* KafkaStyleLogNode.cluster
    neighbors,                  \* KafkaStyleLogNode.neighbors
    known,                      \* KafkaStyleLogNode.known : NodeId -> SeenLogs
    src,                        \* LogStore.src
    uncommitted_logs,           \* LogStore.uncommitted_logs
    committed_logs,             \* LogStore.committed_logs
    anchored_uncommitted_logs,  \* KafkaStyleLogNode.anchored_uncommitted_logs
    anchored_committed_logs,    \* KafkaStyleLogNode.anchored_committed_logs
    timer,                      \* what the timer thread enqueues next
    crashed,                    \* nodes whose process has ended (panic or Err out of main_loop)
    redis,                      \* the Redis counters "<key>::offset"
    redis_up,                   \* whether the Redis connection answers
    net,                        \* Gossip messages written to stdout and not yet delivered
    handled,                    \* the event handled by the last step and what it wrote
    requests,                   \* client requests issued so far
    rx,                         \* main_loop: the messages in the mpsc channel, oldest first
    tx_sent,                    \* main_loop: every message given to tx.send, in the order of the sends
    dispatched,                 \* main_loop: every message given to node.handle_message, in order
    main_pc,                    \* main_loop: where the main thread is ("recv", "handle", "exit")
    timer_pc,                   \* Node::init: the tick the timer thread sends next
    counter_node,               \* GrowOnlyCounterNode of every process
    counter_net,                \* grow-only counter: Gossip messages written and not yet delivered
    counter_crashed,            \* grow-only counter: processes that have panicked
    client_msg_id,              \* the next msg_id of every client of the counter
    acked                       \* the sum of the deltas of the adds answered by add_ok

vars == <<harness, node_id, message_id, cluster, neighbors, known, src,
          uncommitted_logs, committed_logs, anchored_uncommitted_logs,
          anchored_committed_logs, timer, crashed, redis, redis_up, net, handled,
          requests, rx, tx_sent, dispatched, main_pc, timer_pc, counter_node,
          counter_net, counter_crashed, client_msg_id, acked>>

\* the threads of one process (main_loop and Node::init)
loopVars == <<rx, tx_sent, dispatched, main_pc, timer_pc>>
\* the grow-only counter cluster and its clients
counterVars == <<counter_node, counter_net, counter_crashed, client_msg_id, acked>>

\* the Kafka-style log cluster, its Redis and its clients
kafkaVars == <<harness, node_id, message_id, cluster, neighbors, known, src,
               uncommitted_logs, committed_logs, anchored_uncommitted_logs,
               anchored_committed_logs, timer, crashed, redis, redis_up, net, handled,
               requests>>
nodeVars == <<node_id, cluster, neighbors, src>>
logVars == <<uncommitted_logs, committed_logs>>
anchoredVars == <<anchored_uncommitted_logs, anchored_committed_logs>>

\* ------------------------------------------------------------ Option<T>
None == << >>
Some(x) == << x >>

\* ------------------------------------------------- LogEntry and HashSet
LogEntry(mid, k, o, v, seen) ==
    [msg_id |-> mid, key |-> k, offset |-> o, msg |-> v, seen_by |-> seen]

\* impl PartialEq for LogEntry: seen_by and msg take no part
EntryEq(a, b) == a.key = b.key /\ a.offset = b.offset /\ a.msg_id = b.msg_id

\* HashSet::contains
Contains(S, e) == \E x \in S : EntryEq(x, e)

\* HashSet::extend / HashSet::insert: an element equal to one already present
\* is dropped, the one present stays as it is
HashSetExtend(S, T) == S \cup {e \in T : ~Contains(S, e)}

\* ----------------------------------------------- Logs = HashMap<KeyId, HashSet>
EmptyLogs == [k \in {} |-> {}]

SeenLogsDefault == [uncommitted |-> EmptyLogs, committed |-> EmptyLogs]

LogsGet(logs, k) == IF k \in DOMAIN logs THEN logs[k] ELSE {}

\* HashMap::extend: the value of a key already present is replaced
HashMapExtend(logs, other) ==
    [k \in DOMAIN logs \cup DOMAIN other |->
        IF k \in DOMAIN other THEN other[k] ELSE logs[k]]

\* logs.entry(k).or_default().extend(entries[k]), for every key k of entries
EntryExtend(logs, entries) ==
    [k \in DOMAIN logs \cup DOMAIN entries |->
        IF k \in DOMAIN entries
        THEN HashSetExtend(LogsGet(logs, k), entries[k])
        ELSE logs[k]]

\* every entry of a Logs value
AllEntries(logs) == UNION {logs[k] : k \in DOMAIN logs}

\* -------------------------------------------------------------- LogStore
\* LogStore::append_committed / append_uncommitted: every incoming entry is
\* cloned, stamped with LogStore.src and inserted into the tier's HashSet
Stamped(entries, s) ==
    {[e EXCEPT !.seen_by = e.seen_by \cup {s}] : e \in entries}

append_committed(committed, s, logs) ==
    EntryExtend(committed,
                [k \in {x \in DOMAIN logs : logs[x] # {}} |-> Stamped(logs[k], s)])

append_uncommitted(uncommitted, s, logs) ==
    EntryExtend(uncommitted,
                [k \in {x \in DOMAIN logs : logs[x] # {}} |-> Stamped(logs[k], s)])

\* LogStore::append
append(uncommitted, s, key, mid, offset, msg) ==
    EntryExtend(uncommitted, [k \in {key} |-> {LogEntry(mid, key, offset, msg, {s})}])

\* LogStore::commit: the keys of `offsets` whose uncommitted set exists and is
\* not empty
CommitKeys(uncommitted, offsets) ==
    {k \in DOMAIN offsets : k \in DOMAIN uncommitted /\ uncommitted[k] # {}}

\* (a faulty variant: the entry at the committed offset itself is left behind)
commit_below(uncommitted, committed, offsets) ==
    LET ks == CommitKeys(uncommitted, offsets)
    IN  [uncommitted |->
            [k \in DOMAIN uncommitted |->
                IF k \in ks THEN {l \in uncommitted[k] : l.offset >= offsets[k]}
                ELSE uncommitted[k]],
         committed |->
            EntryExtend(committed,
                [k \in ks |-> {l \in uncommitted[k] : l.offset < offsets[k]}])]

\* (a faulty variant: the key is looked up with entry(key).or_default() in both
\* tiers, without skipping a key the Uncommitted tier does not have)
commit_or_default(uncommitted, committed, offsets) ==
    [uncommitted |->
        [k \in DOMAIN uncommitted \cup DOMAIN offsets |->
            IF k \in DOMAIN offsets
            THEN {l \in LogsGet(uncommitted, k) : l.offset > offsets[k]}
            ELSE uncommitted[k]],
     committed |->
        EntryExtend(committed,
            [k \in DOMAIN offsets |->
                {l \in LogsGet(uncommitted, k) : l.offset <= offsets[k]}])]

\* (a faulty variant: what leaves the Uncommitted tier is not put into the
\* Committed tier)
commit_retain(uncommitted, committed, offsets) ==
    LET ks == CommitKeys(uncommitted, offsets)
    IN  [uncommitted |->
            [k \in DOMAIN uncommitted |->
                IF k \in ks THEN {l \in uncommitted[k] : l.offset > offsets[k]}
                ELSE uncommitted[k]],
         committed |-> committed]

commit(uncommitted, committed, offsets) ==
    LET ks == CommitKeys(uncommitted, offsets)
    IN  [uncommitted |->
            [k \in DOMAIN uncommitted |->
                IF k \in ks THEN {l \in uncommitted[k] : l.offset > offsets[k]}
                ELSE uncommitted[k]],
         committed |->
            EntryExtend(committed,
                [k \in ks |-> {l \in uncommitted[k] : l.offset <= offsets[k]}])]

\* ------------------------------------------------------- anchor_messages
\* (a faulty variant: an entry counts as seen by all once its seen_by has as many
\* members as the node has neighbors)
AnchorTier_neighbors(logs, anchored, cl) ==
    [logs |-> [k \in DOMAIN logs |->
                {e \in logs[k] : Cardinality(e.seen_by) < Cardinality(cl) - 1}],
     anchored |-> EntryExtend(anchored,
                    [k \in DOMAIN logs |->
                        {e \in logs[k] : Cardinality(e.seen_by) >= Cardinality(cl) - 1}])]

\* one of the two loops of anchor_messages, over one tier and its anchored store
AnchorTier(logs, anchored, cl) ==
    [logs |-> [k \in DOMAIN logs |-> {e \in logs[k] : e.seen_by # cl}],
     anchored |-> EntryExtend(anchored,
                    [k \in DOMAIN logs |-> {e \in logs[k] : e.seen_by = cl}])]

\* ------------------------------------------------------------ handle_poll
\* (a faulty variant: the entries are not filtered by offset)
filter_and_map_by_offset_all(log_entries, offset) ==
    [o \in {l.offset : l \in log_entries} |->
        CHOOSE v \in {l.msg : l \in log_entries} :
            \E l \in log_entries : l.offset = o /\ l.msg = v]

\* LogEntry::filter_and_map_by_offset: a HashMap offset -> msg (were two entries
\* to share an offset, the one iterated last would win)
filter_and_map_by_offset(log_entries, offset) ==
    LET kept == {l \in log_entries : l.offset >= offset}
    IN  [o \in {l.offset : l \in kept} |->
            CHOOSE v \in {l.msg : l \in kept} : \E l \in kept : l.offset = o /\ l.msg = v]

\* KafkaStyleLogNode::filter_logs
filter_logs(logs, key, offset) ==
    IF key \in DOMAIN logs THEN filter_and_map_by_offset(logs[key], offset)
    ELSE [o \in {} |-> 0]

\* HashMap<usize, usize>::extend
MapExtend(f, g) ==
    [o \in DOMAIN f \cup DOMAIN g |-> IF o \in DOMAIN g THEN g[o] ELSE f[o]]

RECURSIVE SortedPairs(_)
\* serialize_as_pairs: the [offset, value] pairs of one key, sorted by offset
SortedPairs(f) ==
    IF DOMAIN f = {} THEN << >>
    ELSE LET o == CHOOSE x \in DOMAIN f : \A y \in DOMAIN f : x <= y
         IN  << <<o, f[o]>> >> \o SortedPairs([y \in DOMAIN f \ {o} |-> f[y]])

\* the msgs of the PollOk a node builds from its two anchored stores
PollMsgs(anchored_committed, anchored_uncommitted, offsets) ==
    [k \in DOMAIN offsets |->
        SortedPairs(MapExtend(filter_logs(anchored_committed, k, offsets[k]),
                              filter_logs(anchored_uncommitted, k, offsets[k])))]

\* handle_list_committed_offsets: keys missing from the store are skipped
ListOffsets(anchored_committed, keys) ==
    [k \in {x \in keys : x \in DOMAIN anchored_committed} |->
        Cardinality(anchored_committed[k])]

\* ------------------------------------------------------------- messages
Message(s, d, mid, irt, type, payload) ==
    [src |-> s, dest |-> d, msg_id |-> mid, in_reply_to |-> irt,
     type |-> type, payload |-> payload]

NoPayload == [none |-> TRUE]

\* the timer thread took its node_id before any init message was read
Tick(type) == Message("uninit", "uninit", None, None, type, NoPayload)

\* what the last step handled and wrote: the envelope of the message it took
\* from the channel and the envelopes of the replies it wrote, in order
Envelope(m) ==
    [src |-> m.src, dest |-> m.dest, msg_id |-> m.msg_id,
     in_reply_to |-> m.in_reply_to, type |-> m.type]

RECURSIVE Envelopes(_)
Envelopes(ms) ==
    IF ms = << >> THEN << >> ELSE << Envelope(Head(ms)) >> \o Envelopes(Tail(ms))

\* (kept only in the runs that observe the replies)
Handled(n, msg, replies) ==
    IF harness.observe
    THEN [node |-> n, msg |-> Envelope(msg), replies |-> Envelopes(replies)]
    ELSE handled

node_ids == harness.node_ids

\* the node's process is running and can take one more message from its channel
Running(n) == n \in node_ids /\ n \notin crashed

\* send_message / send_messages bump message_id by one, up to the cap of the
\* run. A run that folds message ids lets TriggerGossip send on at the cap,
\* with the message ids from the cap on told no further apart: no handler reads
\* the msg_id of a Gossip, and the requests, whose message_id goes into an
\* entry or a reply, stay under the cap.
CanSend(n) == message_id[n] < harness.max_msg_id

\* The harness issues one more client request to n; it starts the workload
\* once every member has answered init (unless the run is one that does not
\* wait: nothing in the node makes a request wait for init), and its client
\* numbers its requests
\* (and sends the value 10 + i in its i-th request, if that is a send).
Request(n) ==
    /\ Running(n)
    /\ CanSend(n)
    /\ harness.await_init => \A x \in node_ids : node_id[x] # "uninit"
    /\ requests < harness.max_requests
    /\ requests' = requests + 1

\* the request the client sends to n
ClientMessage(n, type, payload) ==
    Message(Client, n, Some(requests + 1), None, type, payload)

\* ------------------------------------------------------------------ Init
\* the processes and the clients of the grow-only counter
CounterNodes == {"n1", "n2"}
CounterClients == {"c1", "c2"}

\* GrowOnlyCounterNode::new
GrowOnlyCounterNode ==
    [node_id |-> "uninit", message_id |-> 0, messages |-> << >>, value |-> 0,
     neighbors |-> {}, known |-> << >>]

\* main_loop before any thread has sent: the channel is empty, the main thread
\* waits in `for message in rx`, the timer thread sleeps before its first tick
InitLoopVars ==
    /\ rx = << >>
    /\ tx_sent = << >>
    /\ dispatched = << >>
    /\ main_pc = "recv"
    /\ timer_pc = "trigger_gossip"

\* GrowOnlyCounterNode::new for every process, nothing sent yet
InitCounterVars ==
    /\ counter_node = [n \in CounterNodes |-> GrowOnlyCounterNode]
    /\ counter_net = {}
    /\ counter_crashed = {}
    /\ client_msg_id = [c \in CounterClients |-> 1]
    /\ acked = 0

\* KafkaStyleLogNode::new for every process, nothing sent yet
InitWith(h) ==
    /\ InitLoopVars
    /\ InitCounterVars
    /\ harness = h
    /\ node_id = [n \in Nodes |-> "uninit"]
    /\ message_id = [n \in Nodes |-> 0]
    /\ cluster = [n \in Nodes |-> {}]
    /\ neighbors = [n \in Nodes |-> {}]
    /\ known = [n \in Nodes |-> [x \in {} |-> SeenLogsDefault]]
    /\ src = [n \in Nodes |-> "uninit"]
    /\ uncommitted_logs = [n \in Nodes |-> EmptyLogs]
    /\ committed_logs = [n \in Nodes |-> EmptyLogs]
    /\ anchored_uncommitted_logs = [n \in Nodes |-> EmptyLogs]
    /\ anchored_committed_logs = [n \in Nodes |-> EmptyLogs]
    /\ timer = [n \in Nodes |-> "trigger_gossip"]
    /\ crashed = {}
    /\ redis = [k \in AllKeys |-> 0]
    /\ redis_up = TRUE
    /\ net = {}
    /\ requests = 0
    /\ handled = [node |-> "none", msg |-> Envelope(Tick("none")), replies |-> << >>]

Init ==
    InitWith([node_ids |-> {"n1", "n2", "n3"}, max_offset |-> MaxOffset, max_msg_id |-> MaxMsgId,
              max_requests |-> MaxRequests, observe |-> FALSE,
              await_init |-> TRUE, fold_msg_id |-> FALSE])

Init2 ==
    InitWith([node_ids |-> {"n1", "n2"}, max_offset |-> MaxOffset2,
              max_msg_id |-> MaxMsgId2, max_requests |-> MaxRequests2, observe |-> TRUE,
              await_init |-> TRUE, fold_msg_id |-> FALSE])

\* ----------------------------------------------------------- handle_init
\* the harness sends each member one init message
HandleInit(n) ==
    LET msg == Message(Client, n, Some(1), None, "init",
                       [node_id |-> n, node_ids |-> node_ids])
        nodes == {x \in node_ids : x # n}
        reply == Message(n, msg.src, None, msg.msg_id, "init_ok", NoPayload)
    IN  /\ Running(n)
        /\ node_id[n] = "uninit"
        /\ CanSend(n)
        /\ node_id' = [node_id EXCEPT ![n] = n]
        /\ neighbors' = [neighbors EXCEPT ![n] = nodes]
        /\ cluster' = [cluster EXCEPT ![n] = nodes \cup {n}]
        /\ src' = [src EXCEPT ![n] = n]
        /\ known' = [known EXCEPT ![n] =
                [x \in DOMAIN known[n] \cup nodes |->
                    IF x \in nodes THEN SeenLogsDefault ELSE known[n][x]]]
        /\ message_id' = [message_id EXCEPT ![n] = @ + 1]
        /\ handled' = Handled(n, msg, << reply >>)
        /\ UNCHANGED <<harness, loopVars, counterVars, requests, logVars, anchoredVars, timer, crashed,
                       redis, redis_up, net>>

\* ----------------------------------------------------------- handle_send
\* (a faulty variant: the counter is read, not incremented)
incr_get(counter) == counter

\* connection.incr(key, 1): Redis INCR, atomic, answers the counter's value
\* after the increment (a counter that does not exist counts as 0)
incr(counter) == counter + 1

\* an Err of the connection leaves handle_send by `?`, and main_loop by `?` again
HandleSend(n, key, v) ==
    LET msg == ClientMessage(n, "send", [key |-> key, msg |-> v])
        offset == incr(redis[key])
        reply == Message(n, msg.src, Some(message_id[n]), msg.msg_id, "send_ok",
                         [offset |-> offset])
    IN  /\ Request(n)
        /\ redis[key] < harness.max_offset
        /\ IF redis_up
           THEN /\ redis' = [redis EXCEPT ![key] = offset]
                /\ uncommitted_logs' = [uncommitted_logs EXCEPT ![n] =
                        append(@, src[n], key, message_id[n], offset, v)]
                /\ message_id' = [message_id EXCEPT ![n] = @ + 1]
                /\ handled' = Handled(n, msg, << reply >>)
                /\ UNCHANGED crashed
           ELSE /\ crashed' = crashed \cup {n}
                /\ handled' = Handled(n, msg, << >>)
                /\ UNCHANGED <<redis, uncommitted_logs, message_id>>
        /\ UNCHANGED <<harness, loopVars, counterVars, nodeVars, known, committed_logs, anchoredVars,
                       timer, redis_up, net>>

\* ----------------------------------------------------------- handle_poll
HandlePoll(n, offsets) ==
    LET msg == ClientMessage(n, "poll", [offsets |-> offsets])
        reply == Message(n, msg.src, Some(message_id[n]), msg.msg_id, "poll_ok",
                    [msgs |-> PollMsgs(anchored_committed_logs[n],
                                       anchored_uncommitted_logs[n], offsets)])
    IN  /\ Request(n)
        /\ message_id' = [message_id EXCEPT ![n] = @ + 1]
        /\ handled' = Handled(n, msg, << reply >>)
        /\ UNCHANGED <<harness, loopVars, counterVars, nodeVars, known, logVars, anchoredVars, timer,
                       crashed, redis, redis_up, net>>

\* ------------------------------------------------- handle_commit_offsets
HandleCommitOffsets(n, offsets) ==
    LET msg == ClientMessage(n, "commit_offsets", [offsets |-> offsets])
        reply == Message(n, msg.src, Some(message_id[n]), msg.msg_id,
                         "commit_offsets_ok", NoPayload)
        res == commit(uncommitted_logs[n], committed_logs[n], offsets)
    IN  /\ Request(n)
        /\ uncommitted_logs' = [uncommitted_logs EXCEPT ![n] = res.uncommitted]
        /\ committed_logs' = [committed_logs EXCEPT ![n] = res.committed]
        /\ message_id' = [message_id EXCEPT ![n] = @ + 1]
        /\ handled' = Handled(n, msg, << reply >>)
        /\ UNCHANGED <<harness, loopVars, counterVars, nodeVars, known, anchoredVars, timer, crashed,
                       redis, redis_up, net>>

\* ----------------------------------------- handle_list_committed_offsets
HandleListCommittedOffsets(n, keys) ==
    LET msg == ClientMessage(n, "list_committed_offsets", [keys |-> keys])
        reply == Message(n, msg.src, Some(message_id[n]), msg.msg_id,
                    "list_committed_offsets_ok",
                    [offsets |-> ListOffsets(anchored_committed_logs[n], keys)])
    IN  /\ Request(n)
        /\ message_id' = [message_id EXCEPT ![n] = @ + 1]
        /\ handled' = Handled(n, msg, << reply >>)
        /\ UNCHANGED <<harness, loopVars, counterVars, nodeVars, known, logVars, anchoredVars, timer,
                       crashed, redis, redis_up, net>>

\* ------------------------------------------------------- anchor_messages
\* (a faulty variant: only the Uncommitted tier is scanned)
anchor_messages_uncommitted(uncommitted, committed, anchored_uncommitted, anchored_committed, cl) ==
    LET u == AnchorTier(uncommitted, anchored_uncommitted, cl)
    IN  [uncommitted |-> u.logs, committed |-> committed,
         anchored_uncommitted |-> u.anchored, anchored_committed |-> anchored_committed]

anchor_messages(uncommitted, committed, anchored_uncommitted, anchored_committed, cl) ==
    LET u == AnchorTier(uncommitted, anchored_uncommitted, cl)
        c == AnchorTier(committed, anchored_committed, cl)
    IN  [uncommitted |-> u.logs, committed |-> c.logs,
         anchored_uncommitted |-> u.anchored, anchored_committed |-> c.anchored]

\* --------------------------------------------------------- handle_gossip
\* known.get_mut(src): what the node records for `from` once the payload is merged in
GossipKnown(kn, from, seen) ==
    [kn EXCEPT ![from] =
        [uncommitted |-> HashMapExtend(@.uncommitted, seen.uncommitted),
         committed |-> HashMapExtend(@.committed, seen.committed)]]

\* the node's log state after handle_gossip merged `seen` and anchored
handle_gossip(uncommitted, committed, anchored_uncommitted, anchored_committed, s, cl, seen) ==
    anchor_messages(append_uncommitted(uncommitted, s, seen.uncommitted),
                    append_committed(committed, s, seen.committed),
                    anchored_uncommitted, anchored_committed, cl)

\* (a faulty variant: a Gossip from a node missing in `known` is dropped and the
\* process goes on)
HandleGossip_ignore(n, m) ==
    LET res == handle_gossip(uncommitted_logs[n], committed_logs[n],
                             anchored_uncommitted_logs[n], anchored_committed_logs[n],
                             src[n], cluster[n], m.payload.seen)
    IN  /\ Running(n)
        /\ m \in net
        /\ m.dest = n
        /\ net' = net \ {m}
        /\ handled' = Handled(n, m, << >>)
        /\ IF m.src \in DOMAIN known[n]
           THEN /\ known' = [known EXCEPT ![n] = GossipKnown(@, m.src, m.payload.seen)]
                /\ uncommitted_logs' = [uncommitted_logs EXCEPT ![n] = res.uncommitted]
                /\ committed_logs' = [committed_logs EXCEPT ![n] = res.committed]
                /\ anchored_uncommitted_logs' =
                        [anchored_uncommitted_logs EXCEPT ![n] = res.anchored_uncommitted]
                /\ anchored_committed_logs' =
                        [anchored_committed_logs EXCEPT ![n] = res.anchored_committed]
                /\ UNCHANGED crashed
           ELSE UNCHANGED <<crashed, known, logVars, anchoredVars>>
        /\ UNCHANGED <<harness, loopVars, counterVars, requests, nodeVars, message_id, timer, redis, redis_up>>

\* known.get_mut(src).expect("Unknown node") panics before anything is changed
HandleGossip(n, m) ==
    LET res == handle_gossip(uncommitted_logs[n], committed_logs[n],
                             anchored_uncommitted_logs[n], anchored_committed_logs[n],
                             src[n], cluster[n], m.payload.seen)
    IN  /\ Running(n)
        /\ m \in net
        /\ m.dest = n
        /\ net' = net \ {m}
        /\ handled' = Handled(n, m, << >>)
        /\ IF m.src \in DOMAIN known[n]
           THEN /\ known' = [known EXCEPT ![n] = GossipKnown(@, m.src, m.payload.seen)]
                /\ uncommitted_logs' = [uncommitted_logs EXCEPT ![n] = res.uncommitted]
                /\ committed_logs' = [committed_logs EXCEPT ![n] = res.committed]
                /\ anchored_uncommitted_logs' =
                        [anchored_uncommitted_logs EXCEPT ![n] = res.anchored_uncommitted]
                /\ anchored_committed_logs' =
                        [anchored_committed_logs EXCEPT ![n] = res.anchored_committed]
                /\ UNCHANGED crashed
           ELSE /\ crashed' = crashed \cup {n}
                /\ UNCHANGED <<known, logVars, anchoredVars>>
        /\ UNCHANGED <<harness, loopVars, counterVars, requests, nodeVars, message_id, timer, redis, redis_up>>

\* ------------------------------------------------- handle_trigger_gossip
\* the test of the committed loop: is `key` missing from what is recorded for nb
CommittedNotKnown(kn, nb, key) ==
    nb \notin DOMAIN kn \/ key \notin DOMAIN kn[nb].committed

\* the test of the uncommitted loop: its first operand looks the KEY up in
\* `known`, which is indexed by node id
UncommittedNotKnown(kn, nb, key) ==
    key \notin DOMAIN kn \/ key \notin DOMAIN kn[nb].uncommitted

\* the keys of a tier that pass the test of its loop, for neighbor nb
UncommittedKeys(kn, nb, logs) == {k \in DOMAIN logs : UncommittedNotKnown(kn, nb, k)}
CommittedKeys(kn, nb, logs) == {k \in DOMAIN logs : CommittedNotKnown(kn, nb, k)}

\* The values one tier's loop can leave in n_not_seen: every entry of every key
\* that passes the test (the keys notKnown), unless the number of KEYS collected reaches
\* gossip_batch_size, where both loops break right after the first entry of
\* the key that made it so (HashMap and HashSet iterate in no defined order).
Batches(logs, notKnown) ==
    LET ek == {k \in DOMAIN logs : k \in notKnown /\ logs[k] # {}}
    IN  IF Cardinality(ek) < gossip_batch_size
        THEN {[k \in ek |-> logs[k]]}
        ELSE UNION {UNION {
                {[k \in full \cup {last} |-> IF k = last THEN {e} ELSE logs[k]] :
                    e \in logs[last]} :
                last \in ek \ full} :
                full \in {f \in SUBSET ek : Cardinality(f) = gossip_batch_size - 1}}

\* the n_not_seen values the first loop over the neighbors can compute
NotSeen(nbs, kn, uncommitted, committed) ==
    {d \in [nbs -> UNION {
                {[uncommitted |-> u, committed |-> c] :
                    u \in Batches(uncommitted, UncommittedKeys(kn, nb, uncommitted)),
                    c \in Batches(committed, CommittedKeys(kn, nb, committed))} :
                nb \in nbs}] :
        \A nb \in nbs :
            /\ d[nb].uncommitted \in
                    Batches(uncommitted, UncommittedKeys(kn, nb, uncommitted))
            /\ d[nb].committed \in
                    Batches(committed, CommittedKeys(kn, nb, committed))}

\* the filter in front of `seen_logs`: neighbors with something to be sent
SendTo(d) ==
    {nb \in DOMAIN d : d[nb].uncommitted # EmptyLogs \/ d[nb].committed # EmptyLogs}

\* `known` after the loop that records what is being sent
TriggerKnown(kn, d) ==
    [x \in DOMAIN kn |->
        IF x \in SendTo(d)
        THEN [uncommitted |-> HashMapExtend(kn[x].uncommitted, d[x].uncommitted),
              committed |-> HashMapExtend(kn[x].committed, d[x].committed)]
        ELSE kn[x]]

\* (a faulty variant: what was sent is not marked as seen by the neighbor)
MarkSeen_unmarked(logs, d, tier) == logs

\* the take / insert loops: each entry sent to a neighbor gets that neighbor in
\* its seen_by; d[nb][tier] is the part of n_not_seen of the same tier
MarkSeen(logs, d, tier) ==
    [k \in DOMAIN logs |->
        {[e EXCEPT !.seen_by =
                @ \cup {nb \in SendTo(d) : Contains(LogsGet(d[nb][tier], k), e)}] :
            e \in logs[k]}]

GossipMessages(n, d) ==
    {Message(node_id[n], nb, Some(message_id[n]), None, "gossip", [seen |-> d[nb]]) :
        nb \in SendTo(d)}

HandleTriggerGossip(n) ==
    /\ Running(n)
    /\ timer[n] = "trigger_gossip"
    /\ timer' = [timer EXCEPT ![n] = "anchor"]
    /\ IF neighbors[n] = {} \/ node_id[n] = "uninit"
       THEN /\ handled' = Handled(n, Tick("trigger_gossip"), << >>)
            /\ UNCHANGED <<known, logVars, message_id, net>>
       ELSE \E d \in NotSeen(neighbors[n], known[n], uncommitted_logs[n],
                             committed_logs[n]) :
            /\ SendTo(d) # {} => (CanSend(n) \/ harness.fold_msg_id)
            /\ known' = [known EXCEPT ![n] = TriggerKnown(@, d)]
            /\ uncommitted_logs' = [uncommitted_logs EXCEPT ![n] =
                    MarkSeen(@, d, "uncommitted")]
            /\ committed_logs' = [committed_logs EXCEPT ![n] =
                    MarkSeen(@, d, "committed")]
            /\ net' = net \cup GossipMessages(n, d)
            /\ message_id' = [message_id EXCEPT ![n] =
                    IF SendTo(d) # {} /\ CanSend(n) THEN @ + 1 ELSE @]
            /\ handled' = Handled(n, Tick("trigger_gossip"), << >>)
    /\ UNCHANGED <<harness, loopVars, counterVars, requests, nodeVars, anchoredVars, crashed, redis, redis_up>>

\* --------------------------------------------------------- handle_anchor
\* (a faulty variant: the tick is not ignored before init)
HandleAnchor_unguarded(n) ==
    LET res == anchor_messages(uncommitted_logs[n], committed_logs[n],
                               anchored_uncommitted_logs[n], anchored_committed_logs[n],
                               cluster[n])
    IN  /\ Running(n)
        /\ timer[n] = "anchor"
        /\ timer' = [timer EXCEPT ![n] = "trigger_gossip"]
        /\ handled' = Handled(n, Tick("anchor"), << >>)
        /\ IF FALSE
           THEN UNCHANGED <<logVars, anchoredVars>>
           ELSE /\ uncommitted_logs' = [uncommitted_logs EXCEPT ![n] = res.uncommitted]
                /\ committed_logs' = [committed_logs EXCEPT ![n] = res.committed]
                /\ anchored_uncommitted_logs' =
                        [anchored_uncommitted_logs EXCEPT ![n] = res.anchored_uncommitted]
                /\ anchored_committed_logs' =
                        [anchored_committed_logs EXCEPT ![n] = res.anchored_committed]
        /\ UNCHANGED <<harness, loopVars, counterVars, requests, nodeVars, known, message_id, crashed, redis,
                       redis_up, net>>

HandleAnchor(n) ==
    LET res == anchor_messages(uncommitted_logs[n], committed_logs[n],
                               anchored_uncommitted_logs[n], anchored_committed_logs[n],
                               cluster[n])
    IN  /\ Running(n)
        /\ timer[n] = "anchor"
        /\ timer' = [timer EXCEPT ![n] = "trigger_gossip"]
        /\ handled' = Handled(n, Tick("anchor"), << >>)
        /\ IF node_id[n] = "uninit"
           THEN UNCHANGED <<logVars, anchoredVars>>
           ELSE /\ uncommitted_logs' = [uncommitted_logs EXCEPT ![n] = res.uncommitted]
                /\ committed_logs' = [committed_logs EXCEPT ![n] = res.committed]
                /\ anchored_uncommitted_logs' =
                        [anchored_uncommitted_logs EXCEPT ![n] = res.anchored_uncommitted]
                /\ anchored_committed_logs' =
                        [anchored_committed_logs EXCEPT ![n] = res.anchored_committed]
        /\ UNCHANGED <<harness, loopVars, counterVars, requests, nodeVars, known, message_id, crashed, redis,
                       redis_up, net>>

\* ------------------------------------------------------------------ Next
\* the offsets maps a poll or commit_offsets request can carry
OffsetMaps == UNION {[ks -> 0..harness.max_offset] : ks \in SUBSET Keys}

Next ==
    \/ \E n \in Nodes : HandleInit(n)
    \/ \E n \in Nodes, k \in Keys : HandleSend(n, k, 10 + requests)
    \/ \E n \in Nodes, offsets \in OffsetMaps : HandlePoll(n, offsets)
    \/ \E n \in Nodes, offsets \in OffsetMaps : HandleCommitOffsets(n, offsets)
    \/ \E n \in Nodes, keys \in SUBSET Keys : HandleListCommittedOffsets(n, keys)
    \/ \E n \in Nodes, m \in net : HandleGossip(n, m)
    \/ \E n \in Nodes : HandleTriggerGossip(n)
    \/ \E n \in Nodes : HandleAnchor(n)

\* three members, the replies not observed
Spec == Init /\ [][Next]_vars

\* two members, a longer workload, the replies observed
Spec2 == Init2 /\ [][Next]_vars

\* four members and one workload: a send to n1 and commit_offsets {k1: 1} to
\* n2, while the timer threads of n1 and n3 alone have fired
MaxOffset4 == 1
MaxMsgId4 == 3
MaxRequests4 == 3

Init4 ==
    InitWith([node_ids |-> Nodes, max_offset |-> MaxOffset4, max_msg_id |-> MaxMsgId4,
              max_requests |-> MaxRequests4, observe |-> FALSE,
              await_init |-> TRUE, fold_msg_id |-> FALSE])

Next4 ==
    \/ \E n \in Nodes : HandleInit(n)
    \/ \E k \in Keys : HandleSend("n1", k, 10 + requests)
    \/ \E k \in Keys : HandleCommitOffsets("n2", [x \in {k} |-> harness.max_offset])
    \/ \E n \in Nodes, m \in net : HandleGossip(n, m)
    \/ \E n \in {"n1", "n3"} : HandleTriggerGossip(n)
    \/ \E n \in {"n1", "n3"} : HandleAnchor(n)

Spec4 == Init4 /\ [][Next4]_vars

\* two members and a workload over two keys, the replies observed
MaxOffsetK == 1
MaxMsgIdK == 4
MaxRequestsK == 3

InitKeys ==
    InitWith([node_ids |-> {"n1", "n2"}, max_offset |-> MaxOffsetK,
              max_msg_id |-> MaxMsgIdK, max_requests |-> MaxRequestsK, observe |-> TRUE,
              await_init |-> TRUE, fold_msg_id |-> FALSE])

OffsetMapsKeys == UNION {[ks -> 0..harness.max_offset] : ks \in SUBSET AllKeys}

NextKeys ==
    \/ \E n \in Nodes : HandleInit(n)
    \/ \E n \in Nodes, k \in AllKeys : HandleSend(n, k, 10 + requests)
    \/ \E n \in Nodes, offsets \in OffsetMapsKeys : HandlePoll(n, offsets)
    \/ \E n \in Nodes, offsets \in OffsetMapsKeys : HandleCommitOffsets(n, offsets)
    \/ \E n \in Nodes, keys \in SUBSET AllKeys : HandleListCommittedOffsets(n, keys)
    \/ \E n \in Nodes, m \in net : HandleGossip(n, m)
    \/ \E n \in Nodes : HandleTriggerGossip(n)
    \/ \E n \in Nodes : HandleAnchor(n)

SpecKeys == InitKeys /\ [][NextKeys]_vars

\* ------------------------------------------------------- Redis outages
\* the connection to the Redis server is lost, and found again
RedisDown ==
    /\ redis_up
    /\ redis_up' = FALSE
    /\ UNCHANGED <<harness, loopVars, counterVars, nodeVars, message_id, known, logVars, anchoredVars,
                   timer, crashed, redis, net, handled, requests>>

RedisUp ==
    /\ ~redis_up
    /\ redis_up' = TRUE
    /\ UNCHANGED <<harness, loopVars, counterVars, nodeVars, message_id, known, logVars, anchoredVars,
                   timer, crashed, redis, net, handled, requests>>

MaxOffsetR == 1
MaxMsgIdR == 3
MaxRequestsR == 2

InitRedis ==
    InitWith([node_ids |-> {"n1", "n2"}, max_offset |-> MaxOffsetR,
              max_msg_id |-> MaxMsgIdR, max_requests |-> MaxRequestsR, observe |-> TRUE,
              await_init |-> TRUE, fold_msg_id |-> FALSE])

NextRedis == Next \/ RedisDown \/ RedisUp

\* two members and a Redis server that comes and goes, the replies observed
SpecRedis == InitRedis /\ [][NextRedis]_vars

\* ================================================================ claims
\* what a node holds
Held(n) ==
    AllEntries(uncommitted_logs[n]) \cup AllEntries(committed_logs[n])
    \cup AllEntries(anchored_uncommitted_logs[n])
    \cup AllEntries(anchored_committed_logs[n])

\* the (offset, value) pairs a node holds for a key, in any store
View(n, k) == {<<e.offset, e.msg>> : e \in {x \in Held(n) : x.key = k}}

\* the (offset, value) pairs of the poll_ok a node would write for {k: o}
Polled(n, k, o) ==
    LET p == PollMsgs(anchored_committed_logs[n], anchored_uncommitted_logs[n],
                      [x \in {k} |-> o])[k]
    IN  {p[i] : i \in 1..Len(p)}

Initialised(n) == node_id[n] # "uninit"

\* Nothing is in flight and no tick changes anything any more: every node is
\* running, a TriggerGossip finds nothing to send and an Anchor nothing to move.
Quiescent ==
    /\ net = {}
    /\ \A n \in node_ids :
        /\ Running(n)
        /\ Initialised(n)
        /\ \A d \in NotSeen(neighbors[n], known[n], uncommitted_logs[n],
                            committed_logs[n]) : SendTo(d) = {}
        /\ LET a == anchor_messages(uncommitted_logs[n], committed_logs[n],
                        anchored_uncommitted_logs[n], anchored_committed_logs[n],
                        cluster[n])
           IN  /\ a.uncommitted = uncommitted_logs[n]
               /\ a.committed = committed_logs[n]

\* C1: once nothing is in flight and gossip and anchor ticks have nothing left
\* to do (so, writes having stopped, nothing changes ever again), every node
\* holds the same (offset, value) pairs for every key.
C1_Convergence ==
    Quiescent => \A n, m \in node_ids, k \in Keys : View(n, k) = View(m, k)

\* C2: poll{k: o} on a node returns every entry with offset >= o the node
\* holds for k, in whatever store it is.
C2_PollReturnsWhatIsHeld ==
    \A n \in node_ids, k \in Keys, o \in 0..harness.max_offset :
        \A e \in Held(n) :
            (e.key = k /\ e.offset >= o) => <<e.offset, e.msg>> \in Polled(n, k, o)

\* C3: every entry a node holds (each was acknowledged by a send_ok) is, once
\* gossip and anchoring have nothing left to do, returned on every other node
\* by a poll from an offset <= its offset.
C3_EventuallyPolledEverywhere ==
    Quiescent =>
        \A n, m \in node_ids : \A e \in Held(n) :
            \A o \in 0..e.offset : <<e.offset, e.msg>> \in Polled(m, e.key, o)

\* every copy of an entry there is: in a store of a node, or in a Gossip in flight
Copies ==
    UNION {Held(n) : n \in Nodes}
    \cup UNION {AllEntries(m.payload.seen.uncommitted)
                \cup AllEntries(m.payload.seen.committed) : m \in net}

\* C4: no two sends for a key are acknowledged with the same offset, and a later
\* send gets a larger offset: copies with one key and one offset are copies of
\* one send, and of two sends for a key the later one (the one with the larger
\* value: the client's i-th request carries 10 + i) has the larger offset.
C4_OffsetsUniqueIncreasing ==
    \A a, b \in Copies :
        a.key = b.key =>
            /\ a.offset = b.offset => (a.msg = b.msg /\ a.msg_id = b.msg_id)
            /\ a.msg < b.msg => a.offset < b.offset

\* two sends for one key were handled, on two nodes
C4_Witness ==
    \E n, m \in node_ids : \E a \in Held(n), b \in Held(m) :
        n # m /\ a.key = b.key /\ a.offset # b.offset
        /\ a.seen_by = {n} /\ b.seen_by = {m}

ClientTypes == {"init", "send", "poll", "commit_offsets", "list_committed_offsets"}
InternalTypes == {"gossip", "trigger_gossip", "anchor"}

\* C5: the step that handled a client request wrote exactly one reply, to the
\* request's src and with the request's msg_id as in_reply_to; the step that
\* handled a Gossip or a tick wrote none.
C5_ExactlyOneReply ==
    LET m == handled.msg
    IN  /\ m.type \in ClientTypes =>
            /\ Len(handled.replies) = 1
            /\ handled.replies[1].dest = m.src
            /\ handled.replies[1].src = m.dest
            /\ handled.replies[1].in_reply_to = m.msg_id
        /\ m.type \in InternalTypes => handled.replies = << >>

Anchored(n) ==
    AllEntries(anchored_uncommitted_logs[n]) \cup AllEntries(anchored_committed_logs[n])

\* C6: every entry of an anchored store carries the full cluster set as its
\* seen_by (entries are put there by anchor_messages alone and never changed).
C6_AnchoredSeenByAll ==
    \A n \in node_ids : \A e \in Anchored(n) :
        e.seen_by = cluster[n] /\ cluster[n] = node_ids

\* a node has anchored an entry that another member still holds, not anchored,
\* with a smaller seen_by
C6_Witness ==
    \E n, m \in node_ids : n # m /\ \E e \in Anchored(n) :
        \E f \in AllEntries(uncommitted_logs[m]) \cup AllEntries(committed_logs[m]) :
            EntryEq(e, f) /\ f.seen_by # cluster[m]

InUncommitted(n, k, o) == \E e \in LogsGet(uncommitted_logs[n], k) : e.offset = o
InCommitted(n, k, o) == \E e \in LogsGet(committed_logs[n], k) : e.offset = o
InAnchored(n, k, o) == \E e \in Anchored(n) : e.key = k /\ e.offset = o

\* C7: no step puts into the Uncommitted or the Committed tier of a node an
\* entry that is anchored (and in neither) on it, nor into the Uncommitted
\* tier an entry that is in its Committed tier (and not Uncommitted).
C7_TiersOneWay ==
    [][\A n \in Nodes, k \in Keys, o \in 1..harness.max_offset :
        /\ (InAnchored(n, k, o) /\ ~InUncommitted(n, k, o) /\ ~InCommitted(n, k, o))
            => (~InUncommitted(n, k, o)' /\ ~InCommitted(n, k, o)')
        /\ (InCommitted(n, k, o) /\ ~InUncommitted(n, k, o))
            => ~InUncommitted(n, k, o)']_vars

\* C8: no node holds a (key, offset) entry in two of the three tiers at once.
C8_OneTier ==
    \A n \in Nodes, k \in Keys, o \in 1..harness.max_offset :
        /\ ~(InUncommitted(n, k, o) /\ InCommitted(n, k, o))
        /\ ~(InUncommitted(n, k, o) /\ InAnchored(n, k, o))
        /\ ~(InCommitted(n, k, o) /\ InAnchored(n, k, o))

\* the log state and the peer knowledge of n, and both after n handled a Gossip
\* from `from` carrying `seen`
NodeState(n) ==
    [uncommitted |-> uncommitted_logs[n], committed |-> committed_logs[n],
     anchored_uncommitted |-> anchored_uncommitted_logs[n],
     anchored_committed |-> anchored_committed_logs[n], known |-> known[n]]

AfterGossip(n, st, from, seen) ==
    LET r == handle_gossip(st.uncommitted, st.committed, st.anchored_uncommitted,
                           st.anchored_committed, src[n], cluster[n], seen)
    IN  [uncommitted |-> r.uncommitted, committed |-> r.committed,
         anchored_uncommitted |-> r.anchored_uncommitted,
         anchored_committed |-> r.anchored_committed,
         known |-> GossipKnown(st.known, from, seen)]

\* the Gossip messages in flight that n would merge
Mergeable(n) == {m \in net : m.dest = n /\ Running(n) /\ m.src \in DOMAIN known[n]}

\* C10: handling a Gossip payload a second time, right after the first, leaves
\* the node as the first handling left it.
C10_IdempotentMerge ==
    \A n \in node_ids : \A m \in Mergeable(n) :
        LET once == AfterGossip(n, NodeState(n), m.src, m.payload.seen)
        IN  AfterGossip(n, once, m.src, m.payload.seen) = once

\* the copies of the (k, o) entry in the four stores of n, and the nodes that
\* n records as having seen it
CopiesOf(n, k, o) == {e \in Held(n) : e.key = k /\ e.offset = o}
SeenBy(n, k, o) == UNION {e.seen_by : e \in CopiesOf(n, k, o)}

\* C9: no step takes a member away from the seen_by that a node records for an
\* entry it holds before and after the step.
C9_MonotonicSeenBy ==
    [][\A n \in Nodes, k \in Keys, o \in 1..harness.max_offset :
        (CopiesOf(n, k, o) # {} /\ CopiesOf(n, k, o)' # {})
            => SeenBy(n, k, o) \subseteq SeenBy(n, k, o)']_vars

\* the state of a node (as NodeState) after it handled commit_offsets{offsets}
AfterCommit(st, offsets) ==
    LET r == commit(st.uncommitted, st.committed, offsets)
    IN  [st EXCEPT !.uncommitted = r.uncommitted, !.committed = r.committed]

\* C11: a node that has two Gossip messages of two neighbors in flight ends in
\* the same state (tiers with their seen_by sets, anchored stores, peer
\* knowledge) whichever of the two it handles first.
C11_CommutativeMerge ==
    \A n \in node_ids : \A a, b \in Mergeable(n) :
        a.src # b.src =>
            AfterGossip(n, AfterGossip(n, NodeState(n), a.src, a.payload.seen),
                        b.src, b.payload.seen)
            = AfterGossip(n, AfterGossip(n, NodeState(n), b.src, b.payload.seen),
                          a.src, a.payload.seen)

\* C12: once a node has handled commit_offsets{k: o1}, and then a Gossip that
\* is in flight to it, a commit_offsets{k: o2} with o2 < o1 changes nothing on
\* it.
C12_CommitMonotonic ==
    \A n \in node_ids, k \in Keys :
        \A o1 \in 1..(harness.max_offset + 1), o2 \in 0..harness.max_offset :
            o2 < o1 =>
                \A m \in Mergeable(n) :
                    LET first == AfterCommit(NodeState(n), [x \in {k} |-> o1])
                        merged == AfterGossip(n, first, m.src, m.payload.seen)
                    IN  AfterCommit(merged, [x \in {k} |-> o2]) = merged

\* the offsets of the list_committed_offsets_ok a node would write for {k}
Listed(n, k) == ListOffsets(anchored_committed_logs[n], {k})

\* C13: for a key with entries in the Committed tier of a node,
\* list_committed_offsets on the node reports the number of those entries
\* (or that number plus the key's anchored committed entries, were the
\* anchored ones counted as committed too).
C13_ListReportsCommitted ==
    \A n \in node_ids, k \in Keys :
        LET inTier == Cardinality(LogsGet(committed_logs[n], k))
            both == Cardinality({<<e.offset, e.msg_id>> :
                        e \in LogsGet(committed_logs[n], k)
                              \cup LogsGet(anchored_committed_logs[n], k)})
        IN  inTier > 0 =>
                /\ k \in DOMAIN Listed(n, k)
                /\ Listed(n, k)[k] \in {inTier, both}

\* C14: an entry in an anchored store of a node is held, in some store, by
\* every member of the node's cluster.
C14_AnchoredHeldByAll ==
    \A n \in node_ids : \A e \in Anchored(n) :
        \A x \in cluster[n] : \E f \in Held(x) : EntryEq(e, f)

\* the poll_ok msgs a node builds for {k: o} from the given anchored stores
PollOf(st, k, o) ==
    PollMsgs(st.anchored_committed, st.anchored_uncommitted, [x \in {k} |-> o])

\* the state of a node (as NodeState) after anchor_messages
AfterAnchor(n, st) ==
    LET a == anchor_messages(st.uncommitted, st.committed, st.anchored_uncommitted,
                             st.anchored_committed, cluster[n])
    IN  [st EXCEPT !.uncommitted = a.uncommitted, !.committed = a.committed,
                   !.anchored_uncommitted = a.anchored_uncommitted,
                   !.anchored_committed = a.anchored_committed]

\* C15: what poll returns on a node, for every key and offset, is the same
\* right before and right after anchor_messages runs on it (as it does when an
\* Anchor tick is handled).
C15_AnchorKeepsPoll ==
    \A n \in node_ids, k \in Keys, o \in 0..harness.max_offset :
        (Running(n) /\ Initialised(n)) =>
            PollOf(AfterAnchor(n, NodeState(n)), k, o) = PollOf(NodeState(n), k, o)

\* a key no request of the workload names, and the keys a request can name
NoKey == "k0"
RequestKeys == AllKeys \cup {NoKey}

\* the node has never seen the key: none of its stores has it (a store never
\* loses a key)
Unseen(n, k) ==
    /\ k \notin DOMAIN uncommitted_logs[n]
    /\ k \notin DOMAIN committed_logs[n]
    /\ k \notin DOMAIN anchored_uncommitted_logs[n]
    /\ k \notin DOMAIN anchored_committed_logs[n]

QueryTypes == {"poll", "commit_offsets", "list_committed_offsets"}

OkType(t) ==
    CASE t = "poll" -> "poll_ok"
      [] t = "commit_offsets" -> "commit_offsets_ok"
      [] t = "list_committed_offsets" -> "list_committed_offsets_ok"

\* C16: for a key a node has never seen, poll builds an empty list, commit
\* leaves the node as it is and list_committed_offsets builds no entry; and a
\* step in which a node that has seen no key handles a poll, commit_offsets or
\* list_committed_offsets request writes the one ok reply, does not end the
\* process and leaves the stores of the node as they were.
C16_UnknownKey ==
    [][/\ \A n \in node_ids, k \in RequestKeys, o \in 0..harness.max_offset :
            Unseen(n, k) =>
                /\ PollOf(NodeState(n), k, o) = [x \in {k} |-> << >>]
                /\ AfterCommit(NodeState(n), [x \in {k} |-> o]) = NodeState(n)
                /\ DOMAIN Listed(n, k) = {}
       /\ \A n \in node_ids :
            (/\ handled' # handled
             /\ handled'.node = n
             /\ handled'.msg.type \in QueryTypes
             /\ \A k \in RequestKeys : Unseen(n, k))
            => /\ Len(handled'.replies) = 1
               /\ handled'.replies[1].type = OkType(handled'.msg.type)
               /\ handled'.replies[1].dest = handled'.msg.src
               /\ n \notin crashed'
               /\ NodeState(n)' = NodeState(n)]_vars

\* a node that has seen no key has just handled commit_offsets, while another
\* node holds entries of a key
C16_Witness ==
    \E n, m \in node_ids :
        /\ n # m
        /\ handled.node = n
        /\ handled.msg.type = "commit_offsets"
        /\ \A k \in RequestKeys : Unseen(n, k)
        /\ Held(m) # {}

\* C17: a step in which a node handles a send while the Redis connection fails
\* writes one reply (the failure), appends nothing and does not end the
\* process.
C17_AllocatorFailureSurfaced ==
    [][\A n \in node_ids :
        (/\ handled' # handled
         /\ handled'.node = n
         /\ handled'.msg.type = "send"
         /\ ~redis_up)
        => /\ n \notin crashed'
           /\ Len(handled'.replies) = 1
           /\ handled'.replies[1].dest = handled'.msg.src
           /\ handled'.replies[1].in_reply_to = handled'.msg.msg_id
           /\ NodeState(n)' = NodeState(n)]_vars

\* C18: the step that handles the first send for a key (the key's counter is
\* still 0) appends, and acknowledges, the entry with offset 0.
C18_FirstOffsetZero ==
    [][\A k \in Keys :
        (redis[k] = 0 /\ redis'[k] # redis[k])
        => \E n \in node_ids : \E e \in AllEntries(uncommitted_logs[n])' :
                /\ e.key = k
                /\ e.offset = 0
                /\ ~\E f \in AllEntries(uncommitted_logs[n]) : EntryEq(e, f)]_vars

LogTiers == {"uncommitted", "committed"}

\* the two tiers of n after append_committed and append_uncommitted took in the
\* payload `seen` (handle_gossip before its anchor_messages call)
Merged(n, seen) ==
    [uncommitted |-> append_uncommitted(uncommitted_logs[n], src[n], seen.uncommitted),
     committed |-> append_committed(committed_logs[n], src[n], seen.committed)]

\* C19: when a node merges a Gossip in flight to it, an entry of the payload
\* that it holds in some store gets no new copy in a tier, and its copies in
\* the two tiers take in the incoming seen_by and the node itself; an entry it
\* holds nowhere (arriving in one tier) is inserted into that tier, with the
\* incoming seen_by and the node itself.
C19_MergeUnionsSeenBy ==
    \A n \in node_ids : \A m \in Mergeable(n) :
        \A tier \in LogTiers : \A e \in AllEntries(m.payload.seen[tier]) :
            LET after == Merged(n, m.payload.seen)
                other == CHOOSE t \in LogTiers : t # tier
            IN  IF \E f \in Held(n) : EntryEq(e, f)
                THEN \A t \in LogTiers : \A g \in AllEntries(after[t]) :
                        EntryEq(g, e) =>
                            \E f \in AllEntries(NodeState(n)[t]) :
                                /\ EntryEq(f, g)
                                /\ (f.seen_by \cup e.seen_by \cup {n}) \subseteq g.seen_by
                ELSE (~\E x \in AllEntries(m.payload.seen[other]) : EntryEq(x, e))
                     => /\ \E g \in AllEntries(after[tier]) :
                            EntryEq(g, e) /\ g.seen_by = e.seen_by \cup {n}
                        /\ ~\E g \in AllEntries(after[other]) : EntryEq(g, e)

\* what identifies an entry: LogEntry's Eq and Hash
EntryIds(S) == {<<e.key, e.offset, e.msg_id>> : e \in S}

\* C20: commit_offsets{offsets} on a node leaves, for every key k it names, no
\* entry with offset <= offsets[k] in the Uncommitted tier and every entry with
\* a larger offset there, as it was; the Committed tier of k keeps what it had
\* and gains exactly the entries taken out of Uncommitted, with their values;
\* the tiers of the keys it does not name are as they were.
C20_CommitMovesUpTo ==
    \A n \in node_ids, offsets \in OffsetMapsKeys :
        LET st == NodeState(n)
            r == AfterCommit(st, offsets)
        IN  \A k \in AllKeys :
                IF k \in DOMAIN offsets
                THEN LET low == {e \in LogsGet(st.uncommitted, k) : e.offset <= offsets[k]}
                         high == {e \in LogsGet(st.uncommitted, k) : e.offset > offsets[k]}
                     IN  /\ LogsGet(r.uncommitted, k) = high
                         /\ LogsGet(st.committed, k) \subseteq LogsGet(r.committed, k)
                         /\ EntryIds(LogsGet(r.committed, k))
                                = EntryIds(LogsGet(st.committed, k)) \cup EntryIds(low)
                         /\ \A e \in low : \E g \in LogsGet(r.committed, k) :
                                EntryEq(g, e) /\ g.msg = e.msg
                ELSE /\ LogsGet(r.uncommitted, k) = LogsGet(st.uncommitted, k)
                     /\ LogsGet(r.committed, k) = LogsGet(st.committed, k)

\* a node has just handled a commit_offsets that moved its own entry of one key
\* to the Committed tier and left its entry of the other key Uncommitted
C20_Witness ==
    \E n \in node_ids : \E k1 \in AllKeys, k2 \in AllKeys :
        /\ k1 # k2
        /\ handled.node = n
        /\ handled.msg.type = "commit_offsets"
        /\ \E e \in LogsGet(committed_logs[n], k1) : e.seen_by = {n}
        /\ LogsGet(uncommitted_logs[n], k1) = {}
        /\ LogsGet(uncommitted_logs[n], k2) # {}

\* the entries a node classifies as uncommitted: those of its Uncommitted tier
\* and those it anchored out of it
ClassifiedUncommitted(st) ==
    AllEntries(st.uncommitted) \cup AllEntries(st.anchored_uncommitted)

\* C21: right after a node handled commit_offsets{k: o}, none of the entries of
\* k with offset <= o that it holds is classified as uncommitted, be it in the
\* Uncommitted tier or anchored out of it before the commit.
C21_CommittedBeforeArchived ==
    \A n \in node_ids, k \in Keys, o \in 0..harness.max_offset :
        (Running(n) /\ Initialised(n)) =>
            \A e \in ClassifiedUncommitted(AfterCommit(NodeState(n), [x \in {k} |-> o])) :
                e.key = k => e.offset > o

\* the Gossip payloads n builds if it handles now the TriggerGossip tick that
\* its timer thread enqueues next
Deltas(n) ==
    IF Running(n) /\ Initialised(n) /\ neighbors[n] # {} /\ timer[n] = "trigger_gossip"
    THEN NotSeen(neighbors[n], known[n], uncommitted_logs[n], committed_logs[n])
    ELSE {}

\* the (key, offset, msg_id) entries a node records as known to neighbor nb
\* in one tier
KnownIds(n, nb, tier) == EntryIds(AllEntries(known[n][nb][tier]))

\* C22: the Gossip a trigger builds for a neighbor carries, in its committed
\* and in its uncommitted part, no entry that the sender already records for
\* that neighbor in the peer knowledge of the same tier.
C22_OnlyUnknownEntriesSent ==
    \A n \in node_ids : \A d \in Deltas(n) : \A nb \in SendTo(d) :
        \A tier \in LogTiers :
            EntryIds(AllEntries(d[nb][tier])) \cap KnownIds(n, nb, tier) = {}

\* two members, and a burst of sends for one key to n1 that outnumbers
\* gossip_batch_size, around the first tick of n1's timer thread
MaxOffsetB == 201
MaxMsgIdB == 203
MaxRequestsB == 201

InitBatch ==
    InitWith([node_ids |-> {"n1", "n2"}, max_offset |-> MaxOffsetB,
              max_msg_id |-> MaxMsgIdB, max_requests |-> MaxRequestsB, observe |-> FALSE,
              await_init |-> TRUE, fold_msg_id |-> FALSE])

NextBatch ==
    \/ \E n \in Nodes : HandleInit(n)
    \/ \E k \in Keys : HandleSend("n1", k, 10 + requests)
    \/ HandleTriggerGossip("n1")
    \/ \E m \in net : HandleGossip("n2", m)

SpecBatch == InitBatch /\ [][NextBatch]_vars

\* C23: no Gossip message carries more than gossip_batch_size entries in its
\* committed part, nor in its uncommitted part.
C23_BoundedGossip ==
    \A m \in net : \A tier \in LogTiers :
        Cardinality(AllEntries(m.payload.seen[tier])) <= gossip_batch_size

\* the entries in the Uncommitted and the Committed tier of a node
InTiers(n) == AllEntries(uncommitted_logs[n]) \cup AllEntries(committed_logs[n])

\* n gossiped the entry e to its neighbor nb, as far as any state shows it: the
\* trigger that sent it put nb into the seen_by of n's copy and recorded the
\* entry for nb, and nb holds what it was delivered
Gossiped(n, nb, e) ==
    \/ nb \in e.seen_by
    \/ \E tier \in LogTiers : \E x \in EntryIds({e}) : x \in KnownIds(n, nb, tier)
    \/ \E f \in Held(nb) : EntryEq(e, f)

\* C24: once nothing is in flight and no trigger finds anything to send any
\* more (gossip has drained what it ever will), every entry in the Uncommitted
\* or Committed tier of a node has been gossiped to each of its neighbors.
C24_GossipDrainsBacklog ==
    Quiescent =>
        \A n \in node_ids : \A e \in InTiers(n) : \A nb \in neighbors[n] :
            Gossiped(n, nb, e)

\* the tests of the two loops of handle_trigger_gossip leave something in
\* n_not_seen for the neighbor nb of n: its delta is not empty
HasDelta(n, nb) ==
    \/ \E k \in UncommittedKeys(known[n], nb, uncommitted_logs[n]) :
            uncommitted_logs[n][k] # {}
    \/ \E k \in CommittedKeys(known[n], nb, committed_logs[n]) :
            committed_logs[n][k] # {}

\* C25: in a step in which a node handles TriggerGossip, every message written
\* is a Gossip of the node to a neighbor; a neighbor with a non-empty delta is
\* sent exactly one and a neighbor with an empty delta none; and after the
\* step every entry sent to a neighbor is recorded as known to that neighbor
\* (in the tier it was sent in) and the node's copy of it in that tier has the
\* neighbor in its seen_by.
C25_TriggerSendsAndMarks ==
    [][\A n \in node_ids :
        (timer[n] = "trigger_gossip" /\ timer'[n] = "anchor") =>
            /\ \A m \in net' \ net :
                    m.src = n /\ m.type = "gossip" /\ m.dest \in neighbors[n]
            /\ \A nb \in neighbors[n] :
                LET sent == {m \in net' \ net : m.dest = nb}
                IN  /\ Cardinality(sent) = IF HasDelta(n, nb) THEN 1 ELSE 0
                    /\ \A m \in sent : \A tier \in LogTiers :
                        \A e \in AllEntries(m.payload.seen[tier]) :
                            /\ Contains(AllEntries(known'[n][nb][tier]), e)
                            /\ \E f \in AllEntries(NodeState(n)'[tier]) :
                                    EntryEq(f, e) /\ nb \in f.seen_by]_vars

\* a node has just handled a TriggerGossip that sent to a neighbor an entry
\* whose seen_by named another member already; the Gossip is still in flight,
\* and the node's copy of the entry has the neighbor in its seen_by
C25_Witness ==
    \E m \in net : \E tier \in LogTiers : \E e \in AllEntries(m.payload.seen[tier]) :
        /\ timer[m.src] = "anchor"
        /\ m.msg_id = Some(message_id[m.src] - 1)
        /\ e.seen_by \ {m.src} # {}
        /\ \E f \in AllEntries(NodeState(m.src)[tier]) :
                EntryEq(f, e) /\ m.dest \in f.seen_by

\* the (key, offset) pairs a node records as known to neighbor nb, in either tier
KnownPairs(n, nb) ==
    {<<e.key, e.offset>> :
        e \in AllEntries(known[n][nb].uncommitted) \cup AllEntries(known[n][nb].committed)}

\* C26: no step takes a (key, offset) pair away from what a node records as
\* known to a neighbor.
C26_PeerKnowledgeGrows ==
    [][\A n \in node_ids : \A nb \in DOMAIN known[n] :
        /\ nb \in DOMAIN known'[n]
        /\ KnownPairs(n, nb) \subseteq KnownPairs(n, nb)']_vars

\* C27: when a node merges a Gossip in flight to it, for every entry of the
\* payload and every neighbor X of the node that the entry's seen_by names, the
\* node records the entry as known to X afterwards (in one tier or the other).
C27_SeenByRecordedAsKnown ==
    \A n \in node_ids : \A m \in Mergeable(n) :
        LET after == AfterGossip(n, NodeState(n), m.src, m.payload.seen)
        IN  \A tier \in LogTiers : \A e \in AllEntries(m.payload.seen[tier]) :
                \A X \in e.seen_by \cap neighbors[n] :
                    /\ X \in DOMAIN after.known
                    /\ \E t \in LogTiers : Contains(AllEntries(after.known[X][t]), e)

\* C28: after a step in which a node merged a Gossip, and after a step in which
\* an initialised node handled an Anchor tick, no entry in the Uncommitted or
\* the Committed tier of the node has the full cluster set as its seen_by.
C28_AnchoringComplete ==
    [][\A n \in node_ids :
        (\/ (timer[n] = "anchor" /\ timer'[n] = "trigger_gossip" /\ Initialised(n))
         \/ \E m \in Mergeable(n) : m \notin net')
        => \A e \in InTiers(n)' : e.seen_by # node_ids]_vars

\* a node has just handled an Anchor tick or merged a Gossip: it holds an
\* anchored entry, and a tier of it still holds an entry not yet seen by all
C28_Witness ==
    \E n \in node_ids :
        /\ handled.node = n
        /\ handled.msg.type \in {"anchor", "gossip"}
        /\ n \notin crashed
        /\ Anchored(n) # {}
        /\ \E e \in InTiers(n) : e.seen_by # node_ids

\* the (key, offset, msg_id) entries of which a node holds a copy whose seen_by
\* is the full cluster set
Complete(n) == EntryIds({e \in Held(n) : e.seen_by = node_ids})

\* C29: a step in which a node merges no Gossip (it takes no message from the
\* network: a send, a commit_offsets, a TriggerGossip, an Anchor tick) makes no
\* seen_by of an entry it holds equal to the full cluster set.
C29_OnlyMergeCompletes ==
    [][\A n \in node_ids :
        (~\E m \in net : m.dest = n /\ m \notin net')
            => Complete(n)' \subseteq Complete(n)]_vars

\* C30: the step in which a node handles a send or a commit_offsets request
\* writes exactly one message, the reply to the client that sent the request,
\* puts no message for a neighbor on the network, and leaves the stores and the
\* peer knowledge of every other node as they were.
C30_GossipOnlyDissemination ==
    [][\A n \in node_ids :
        (/\ handled' # handled
         /\ handled'.node = n
         /\ handled'.msg.type \in {"send", "commit_offsets"})
        => /\ Len(handled'.replies) = 1
           /\ handled'.replies[1].dest = handled'.msg.src
           /\ handled'.replies[1].dest = Client
           /\ net' = net
           /\ \A x \in node_ids \ {n} : NodeState(x)' = NodeState(x)]_vars

\* the poll_ok list a node builds for {k: o}: serialize_as_pairs over the msgs
\* of handle_poll
PollList(n, k, o) ==
    PollMsgs(anchored_committed_logs[n], anchored_uncommitted_logs[n], [x \in {k} |-> o])[k]

\* C33: the list a node's poll_ok carries for a key k and offset o names only
\* offsets >= o, in strictly ascending order (so each at most once), and each
\* pair is the offset and value of an entry of k the node holds, a value every
\* copy of that entry carries; and the step that handles a send gives the new
\* entry the acknowledged offset and the value of the request (10 + the number
\* of requests issued before it).
C33_PollListsSortedPairs ==
    [][/\ \A n \in node_ids, k \in Keys, o \in 0..harness.max_offset :
            LET p == PollList(n, k, o)
            IN  \A i \in 1..Len(p) :
                    /\ p[i][1] >= o
                    /\ i < Len(p) => p[i][1] < p[i + 1][1]
                    /\ \E e \in Held(n) :
                            e.key = k /\ e.offset = p[i][1] /\ e.msg = p[i][2]
                    /\ \A c \in Copies :
                            (c.key = k /\ c.offset = p[i][1]) => c.msg = p[i][2]
       /\ \A n \in node_ids, k \in Keys :
            (redis'[k] # redis[k] /\ uncommitted_logs'[n] # uncommitted_logs[n])
            => \E e \in AllEntries(uncommitted_logs[n])' :
                    /\ e \notin AllEntries(uncommitted_logs[n])
                    /\ e.key = k
                    /\ e.offset = redis'[k]
                    /\ e.msg = 10 + requests]_vars

\* a node's poll from offset 0 lists two pairs, its poll from offset 2 one
C33_Witness ==
    \E n \in node_ids, k \in Keys :
        Len(PollList(n, k, 0)) = 2 /\ Len(PollList(n, k, 2)) = 1

\* the (key, offset, value) entries a node holds, over its four stores
Triples(n) == {<<e.key, e.offset, e.msg>> : e \in Held(n)}

\* C34: no step takes a (key, offset, value) entry away from what a node holds
\* over its four stores together.
C34_NoEntryLost ==
    [][\A n \in Nodes : Triples(n) \subseteq Triples(n)']_vars

\* a node holds an entry that commit moved into its Committed tier and an
\* entry that anchor_messages moved into an anchored store
C34_Witness ==
    \E n \in node_ids :
        /\ AllEntries(committed_logs[n]) # {}
        /\ Anchored(n) # {}
        /\ \A e \in AllEntries(committed_logs[n]) : e.seen_by = {n}

\* two members and a harness that does not wait for init_ok before it issues
\* requests, the replies observed
MaxOffsetE == 1
MaxMsgIdE == 3
MaxRequestsE == 2

InitEarly ==
    InitWith([node_ids |-> {"n1", "n2"}, max_offset |-> MaxOffsetE,
              max_msg_id |-> MaxMsgIdE, max_requests |-> MaxRequestsE, observe |-> TRUE,
              await_init |-> FALSE, fold_msg_id |-> FALSE])

SpecEarly == InitEarly /\ [][Next]_vars

\* C31: a step in which a node takes from the network a Gossip whose src is
\* not one of its neighbors (before init it has none) ends the node's process
\* and leaves its tiers, anchored stores and peer knowledge as they were.
C31_UnknownSrcIsFatal ==
    [][\A n \in Nodes : \A m \in net :
        (m.dest = n /\ m \notin net' /\ m.src \notin neighbors[n])
            => /\ n \in crashed'
               /\ NodeState(n)' = NodeState(n)]_vars

\* a node that had not handled init has just taken a Gossip with entries, and
\* its process has ended
C31_Witness ==
    \E n \in node_ids :
        /\ handled.node = n
        /\ handled.msg.type = "gossip"
        /\ handled.msg.src \in node_ids
        /\ node_id[n] = "uninit"
        /\ n \in crashed
        /\ Held(n) = {}

\* C35: every entry a node holds, in any store, has a seen_by that is a subset
\* of the cluster set and contains the node itself, once the node has handled
\* init (so seen_by = cluster and seen_by including the cluster select the
\* same entries), whatever the order of init, send, gossip and ticks was.
C35_SeenByWithinCluster ==
    \A n \in node_ids : Initialised(n) =>
        \A e \in Held(n) : e.seen_by \subseteq cluster[n] /\ n \in e.seen_by

\* C36: the step in which node n handles a send for key k takes the key's
\* fresh offset from the allocator, adds to n's Uncommitted tier for k exactly
\* one entry, with that offset, the value of the request and seen_by = {n},
\* changes nothing else in n's stores, and writes one send_ok.
C36_SendAppendsOneEntry ==
    [][\A n \in node_ids :
        (/\ handled' # handled
         /\ handled'.node = n
         /\ handled'.msg.type = "send")
        => /\ \E k \in AllKeys :
                LET e == LogEntry(message_id[n], k, redis'[k], 10 + requests, {n})
                IN  /\ redis'[k] = redis[k] + 1
                    /\ ~\E f \in Held(n) : f.key = k /\ f.offset = e.offset
                    /\ AllEntries(uncommitted_logs[n])' =
                            AllEntries(uncommitted_logs[n]) \cup {e}
           /\ committed_logs'[n] = committed_logs[n]
           /\ anchored_uncommitted_logs'[n] = anchored_uncommitted_logs[n]
           /\ anchored_committed_logs'[n] = anchored_committed_logs[n]
           /\ Len(handled'.replies) = 1
           /\ handled'.replies[1].type = "send_ok"]_vars

\* ---------------------------------------------------- a cluster of one
MaxOffsetS == 2
MaxMsgIdS == 5
MaxRequestsS == 3

\* one member, so that it has no neighbors after init; requests and ticks may
\* come before init
InitSolo ==
    InitWith([node_ids |-> {"n1"}, max_offset |-> MaxOffsetS,
              max_msg_id |-> MaxMsgIdS, max_requests |-> MaxRequestsS, observe |-> TRUE,
              await_init |-> FALSE, fold_msg_id |-> FALSE])

\* (no node ever writes a Gossip, so none is delivered)
NextSolo ==
    \/ HandleInit("n1")
    \/ \E k \in Keys : HandleSend("n1", k, 10 + requests)
    \/ \E offsets \in OffsetMaps : HandlePoll("n1", offsets)
    \/ \E offsets \in OffsetMaps : HandleCommitOffsets("n1", offsets)
    \/ \E keys \in SUBSET Keys : HandleListCommittedOffsets("n1", keys)
    \/ HandleTriggerGossip("n1")
    \/ HandleAnchor("n1")

SpecSolo == InitSolo /\ [][NextSolo]_vars

\* C38: a TriggerGossip or Anchor tick handled by a node that has not handled
\* init, and a TriggerGossip handled by an initialised node without neighbors,
\* change nothing of the node (stores, peer knowledge, message_id, identity)
\* and write no message.
C38_EarlyTicksAreNoOps ==
    [][\A n \in node_ids :
        (/\ timer'[n] # timer[n]
         /\ \/ node_id[n] = "uninit"
            \/ timer[n] = "trigger_gossip" /\ neighbors[n] = {})
        => /\ NodeState(n)' = NodeState(n)
           /\ message_id' = message_id
           /\ net' = net
           /\ UNCHANGED nodeVars
           /\ handled'.replies = << >>]_vars

\* an initialised node without neighbors has just handled a TriggerGossip
\* while it held an entry in a tier
C38_Witness ==
    \E n \in node_ids :
        /\ Initialised(n) /\ neighbors[n] = {}
        /\ handled.node = n /\ handled.msg.type = "trigger_gossip"
        /\ AllEntries(uncommitted_logs[n]) # {}

\* ------------------------------------------- gossip after the last write
MaxOffsetL == 1
MaxMsgIdL == 2
MaxRequestsL == 1

\* three members and one send to n1, after which no client request comes;
\* the message ids of the Gossip messages are folded at the cap
InitLive ==
    InitWith([node_ids |-> {"n1", "n2", "n3"}, max_offset |-> MaxOffsetL,
              max_msg_id |-> MaxMsgIdL, max_requests |-> MaxRequestsL, observe |-> FALSE,
              await_init |-> TRUE, fold_msg_id |-> TRUE])

\* the ticks of a timer thread are 100 ms apart (300 ms from the start), and
\* what a node writes is delivered well within that: a tick finds no Gossip
\* in flight
InTime == net = {}

NextLive ==
    \/ \E n \in Nodes : HandleInit(n)
    \/ \E k \in Keys : HandleSend("n1", k, 10 + requests)
    \/ \E n \in Nodes, m \in net : HandleGossip(n, m)
    \/ \E n \in Nodes : InTime /\ HandleTriggerGossip(n)
    \/ \E n \in Nodes : InTime /\ HandleAnchor(n)

\* every member gets its init; the timer thread of a running node goes on
\* enqueuing its two ticks (the `loop` of Node::init), whatever the other
\* nodes do in between; the main thread goes on taking what is in its channel,
\* and what a node wrote reaches its destination's channel
FairLive ==
    \A n \in Nodes :
        /\ WF_vars(HandleInit(n))
        /\ SF_vars(InTime /\ HandleTriggerGossip(n))
        /\ SF_vars(InTime /\ HandleAnchor(n))
        /\ WF_vars(\E m \in net : HandleGossip(n, m))

SpecLive == InitLive /\ [][NextLive]_vars /\ FairLive

\* no running member would send anything at its next TriggerGossip
Silent ==
    \A n \in node_ids : (Running(n) /\ Initialised(n)) =>
        \A d \in NotSeen(neighbors[n], known[n], uncommitted_logs[n],
                         committed_logs[n]) : SendTo(d) = {}

\* C37: three members, no client request after the one send, and every Gossip
\* that is written is delivered (the network is empty again and again): from
\* some point on every member's delta for every neighbor is empty, so that no
\* TriggerGossip sends a Gossip any more.
C37_GossipQuiesces == ([]<>(net = {})) => <>[]Silent

\* ------------------------------------------ the threads of one process
MaxSent == 5

\* what the receiver thread parses from stdin: client requests and Gossip
StdinTypes == {"send", "gossip"}

\* the n-th message given to tx.send, by the thread that sends it
Sent(thread, type) == [thread |-> thread, type |-> type, nth |-> Len(tx_sent) + 1]

Flip(type) == IF type = "trigger_gossip" THEN "anchor" ELSE "trigger_gossip"

\* receiver thread: one turn of `for message in inputs`, tx.send(message)
ReceiverSend(type) ==
    /\ main_pc # "exit"
    /\ Len(tx_sent) < MaxSent
    /\ rx' = Append(rx, Sent("receiver", type))
    /\ tx_sent' = Append(tx_sent, Sent("receiver", type))
    /\ UNCHANGED <<dispatched, main_pc, timer_pc, kafkaVars, counterVars>>

\* (a faulty variant: the timer thread runs the handler itself)
TimerSend_direct(type) ==
    /\ main_pc # "exit"
    /\ Len(tx_sent) < MaxSent
    /\ timer_pc = type
    /\ timer_pc' = Flip(type)
    /\ dispatched' = Append(dispatched, Sent("timer", type))
    /\ UNCHANGED <<rx, tx_sent, main_pc, kafkaVars, counterVars>>

\* timer thread: after the sleep tx.send(trigger_gossip), then tx.send(anchor);
\* the closure owns node_id, gossip_interval and tx, nothing else of the node
TimerSend(type) ==
    /\ main_pc # "exit"
    /\ Len(tx_sent) < MaxSent
    /\ timer_pc = type
    /\ timer_pc' = Flip(type)
    /\ rx' = Append(rx, Sent("timer", type))
    /\ tx_sent' = Append(tx_sent, Sent("timer", type))
    /\ UNCHANGED <<dispatched, main_pc, kafkaVars, counterVars>>

\* main thread: `for message in rx` takes the oldest message of the channel
\* and calls node.handle_message with it
MainRecv ==
    /\ main_pc = "recv"
    /\ rx # << >>
    /\ dispatched' = Append(dispatched, Head(rx))
    /\ rx' = Tail(rx)
    /\ main_pc' = "handle"
    /\ UNCHANGED <<tx_sent, timer_pc, kafkaVars, counterVars>>

\* main thread: handle_message returns; an Err leaves the loop by `?`
MainReturn(ok) ==
    /\ main_pc = "handle"
    /\ main_pc' = IF ok THEN "recv" ELSE "exit"
    /\ UNCHANGED <<rx, tx_sent, dispatched, timer_pc, kafkaVars, counterVars>>

InitLoop ==
    InitWith([node_ids |-> {"n1"}, max_offset |-> 0, max_msg_id |-> 0,
              max_requests |-> 0, observe |-> FALSE,
              await_init |-> FALSE, fold_msg_id |-> FALSE])

NextLoop ==
    \/ \E type \in StdinTypes : ReceiverSend(type)
    \/ \E type \in {"trigger_gossip", "anchor"} : TimerSend(type)
    \/ MainRecv
    \/ \E ok \in BOOLEAN : MainReturn(ok)

SpecLoop == InitLoop /\ [][NextLoop]_vars

\* C32: requests, Gossip and ticks all go through the one channel and are
\* given to handle_message one at a time in the order in which they were sent
\* to it: what was handled followed by what waits in the channel is what was
\* sent; a message is handed to the handler only by the main thread, only when
\* the previous call has returned, and it is the oldest one in the channel; a
\* thread that sends (the receiver, the timer) only appends to the channel.
C32_SingleSerializedActor ==
    [][/\ dispatched' \o rx' = tx_sent'
       /\ dispatched' # dispatched =>
            /\ main_pc = "recv" /\ main_pc' = "handle"
            /\ rx # << >>
            /\ dispatched' = Append(dispatched, Head(rx))
            /\ rx' = Tail(rx)
       /\ tx_sent' # tx_sent =>
            /\ rx' = Append(rx, tx_sent'[Len(tx_sent')])
            /\ dispatched' = dispatched
            /\ main_pc' = main_pc]_vars

\* a request and a tick have been handled in the order of their arrival, and
\* more has arrived while the handler is running
C32_Witness ==
    /\ main_pc = "handle"
    /\ rx # << >>
    /\ \E i, j \in 1..Len(dispatched) :
        /\ dispatched[i].thread = "timer"
        /\ dispatched[j].thread = "receiver"

\* -------------------------------------------------- grow_only_counter.rs
MaxMessageIdC == 2
MaxAdds == 2
MaxDelta == 2

\* send_message / send_messages: self.message_id += 1 (message ids from the
\* cap on are not told apart: no handler reads the msg_id of what a node wrote)
SendBump(node) ==
    [node EXCEPT !.message_id = IF @ < MaxMessageIdC THEN @ + 1 ELSE @]

\* HashMap::insert: the value of an existing key is replaced
HashMapInsert(map, key, value) ==
    [x \in DOMAIN map \cup {key} |-> IF x = key THEN value ELSE map[x]]

RECURSIVE SumOf(_)
SumOf(map) ==
    IF DOMAIN map = {} THEN 0
    ELSE LET x == CHOOSE y \in DOMAIN map : TRUE
         IN  map[x] + SumOf([y \in DOMAIN map \ {x} |-> map[y]])

CounterRunning(n) == n \in CounterNodes /\ n \notin counter_crashed

\* the harness sends init once to every process
CounterHandleInit(n) ==
    LET node == counter_node[n]
        nodes == CounterNodes \ {n}
    IN  /\ CounterRunning(n)
        /\ node.node_id = "uninit"
        /\ counter_node' = [counter_node EXCEPT ![n] = SendBump(
                [node EXCEPT !.node_id = n,
                             !.known = [x \in DOMAIN node.known \cup nodes |->
                                            IF x \in nodes THEN {} ELSE node.known[x]],
                             !.neighbors = nodes])]
        /\ UNCHANGED <<counter_net, counter_crashed, client_msg_id, acked,
                       kafkaVars, loopVars>>

\* handle_add: the delta is stored under the msg_id of the client's request
\* and added to the value
handle_add(node, msg_id, delta) ==
    [node EXCEPT !.messages = HashMapInsert(@, msg_id, delta),
                 !.value = @ + delta]

\* the adds sent so far (every client numbers its requests from 1)
Adds == SumOf([c \in CounterClients |-> client_msg_id[c] - 1])

\* client c sends its next request, an add, to n; the add_ok is written
CounterHandleAdd(n, c, delta) ==
    /\ CounterRunning(n)
    /\ Adds < MaxAdds
    /\ counter_node' = [counter_node EXCEPT ![n] =
            SendBump(handle_add(@, client_msg_id[c], delta))]
    /\ client_msg_id' = [client_msg_id EXCEPT ![c] = @ + 1]
    /\ acked' = acked + delta
    /\ UNCHANGED <<counter_net, counter_crashed, kafkaVars, loopVars>>

\* handle_read: the read_ok carries self.value
ReadOk(n) == counter_node[n].value

CounterHandleRead(n) ==
    /\ CounterRunning(n)
    /\ counter_node' = [counter_node EXCEPT ![n] = SendBump(@)]
    /\ UNCHANGED <<counter_net, counter_crashed, client_msg_id, acked,
                   kafkaVars, loopVars>>

\* the loop of handle_gossip over `seen`, the msg_ids in `todo` still to come:
\* a delta is added only if insert finds no value under its msg_id
RECURSIVE InsertSeen(_, _, _)
InsertSeen(node, seen, todo) ==
    IF todo = {} THEN node
    ELSE LET msg_id == CHOOSE x \in todo : TRUE
             next == [node EXCEPT
                        !.messages = HashMapInsert(@, msg_id, seen[msg_id]),
                        !.value = IF msg_id \in DOMAIN node.messages
                                  THEN @ ELSE @ + seen[msg_id]]
         IN  InsertSeen(next, seen, todo \ {msg_id})

counter_handle_gossip(node, from, seen) ==
    InsertSeen([node EXCEPT !.known[from] = @ \cup DOMAIN seen], seen, DOMAIN seen)

\* known.get_mut(src).expect("Unknown node") panics before anything is changed
CounterHandleGossip(n, m) ==
    /\ CounterRunning(n)
    /\ m \in counter_net
    /\ m.dest = n
    /\ counter_net' = counter_net \ {m}
    /\ IF m.src \in DOMAIN counter_node[n].known
       THEN /\ counter_node' = [counter_node EXCEPT ![n] =
                    counter_handle_gossip(@, m.src, m.seen)]
            /\ UNCHANGED counter_crashed
       ELSE /\ counter_crashed' = counter_crashed \cup {n}
            /\ UNCHANGED counter_node
    /\ UNCHANGED <<client_msg_id, acked, kafkaVars, loopVars>>

\* n_not_seen for neighbor nb: the messages whose msg_id is not in known[nb]
CounterNotSeen(node, nb) ==
    [msg_id \in {x \in DOMAIN node.messages : x \notin node.known[nb]} |->
        node.messages[msg_id]]

\* one Gossip for every neighbor, also when it has nothing to carry
CounterGossipMessages(node) ==
    {[src |-> node.node_id, dest |-> nb, msg_id |-> node.message_id,
      seen |-> CounterNotSeen(node, nb)] : nb \in node.neighbors}

\* the tick of the timer thread (every 300 ms)
CounterHandleTriggerGossip(n) ==
    /\ CounterRunning(n)
    /\ IF counter_node[n].neighbors = {}
       THEN UNCHANGED <<counter_node, counter_net>>
       ELSE /\ counter_net' = counter_net \cup CounterGossipMessages(counter_node[n])
            /\ counter_node' = [counter_node EXCEPT ![n] = SendBump(@)]
    /\ UNCHANGED <<counter_crashed, client_msg_id, acked, kafkaVars, loopVars>>

InitCounter ==
    InitWith([node_ids |-> CounterNodes, max_offset |-> 0, max_msg_id |-> 0,
              max_requests |-> 0, observe |-> FALSE,
              await_init |-> FALSE, fold_msg_id |-> TRUE])

NextCounter ==
    \/ \E n \in CounterNodes : CounterHandleInit(n)
    \/ \E n \in CounterNodes, c \in CounterClients, delta \in 1..MaxDelta :
            CounterHandleAdd(n, c, delta)
    \/ \E n \in CounterNodes : CounterHandleRead(n)
    \/ \E n \in CounterNodes, m \in counter_net : CounterHandleGossip(n, m)
    \/ \E n \in CounterNodes : CounterHandleTriggerGossip(n)

\* every process gets its init, its timer thread goes on sending ticks, and
\* what a node wrote reaches its destination
FairCounter ==
    \A n \in CounterNodes :
        /\ WF_vars(CounterHandleInit(n))
        /\ WF_vars(CounterHandleTriggerGossip(n))
        /\ WF_vars(\E m \in counter_net : CounterHandleGossip(n, m))

SpecCounter == InitCounter /\ [][NextCounter]_vars /\ FairCounter

\* C39: in a run in which no process panics, from some point on (the adds
\* have stopped by then) every node answers a read with the sum of the deltas
\* of all the adds that were answered by add_ok, whatever msg_ids the clients
\* gave to their adds.
C39_CounterConverges ==
    ([](counter_crashed = {})) => <>[](\A n \in CounterNodes : ReadOk(n) = acked)

\* C40: in every state the value of a node is the sum of the deltas in its
\* messages map, and the step that handles a Gossip adds to the value exactly
\* the deltas of the msg_ids the node did not have.
C40_ValueIsSumOfMessages ==
    [][/\ \A n \in CounterNodes :
            counter_node[n].value' = SumOf(counter_node[n].messages)'
       /\ \A n \in CounterNodes, m \in counter_net :
            (counter_net' = counter_net \ {m} /\ m.dest = n
                /\ counter_crashed' = counter_crashed) =>
                counter_node[n].value' = counter_node[n].value +
                    SumOf([x \in DOMAIN m.seen \ DOMAIN counter_node[n].messages |->
                                m.seen[x]])]_vars

====
